---- MODULE Spec2Model ----
(***************************************************************************)
(* AnkiGen (src/app.py): the text-to-card engine process_text and the     *)
(* identifier derivation of create_apkg.                                  *)
(*                                                                         *)
(* A Python str is a sequence of one-character strings, so that split,    *)
(* strip, replace and the regular expressions are computed on characters. *)
(* A hash digest is kept symbolic: <<"sha1", n, s>> is the first n hex     *)
(* characters of the SHA-1 digest of s, equal exactly when n and s are.   *)
(***************************************************************************)
EXTENDS Integers, Sequences, FiniteSets, TLC

VARIABLES
    text,       \* the text area's content (app.py:238)
    deck_name,  \* the "Deck name" field (app.py:236)
    tags,       \* the module global `tags`: the raw "Tags" field, a str (app.py:242)
    df,         \* checkbox "Definitions"      -> gen_definitions
    fill,       \* checkbox "Blanks to fill"   -> gen_fill
    rev,        \* checkbox "Classifications"  -> gen_class
    pc,         \* "form" | "cards" | "apkg"
    cards,      \* the list process_text returned
    split_call, \* the call of split_blocks in this run: its argument and its result
    deck,       \* what create_apkg put in the package: deck id and notes
    prev        \* the package of the previous run with this form, if any

vars == <<text, deck_name, tags, df, fill, rev, pc, cards, split_call, deck, prev>>

----------------------------------------------------------------------------
(* Bounds of the model. *)

\* the most lines a text has
MaxLines == 3

\* the most lines a text has that is submitted twice
MaxRerunLines == 2

----------------------------------------------------------------------------
(* Python str and list operations, on sequences of characters. *)

Whitespace == {" ", "\t"}

Min(S) == CHOOSE x \in S : \A y \in S : x <= y

Max(S) == CHOOSE x \in S : \A y \in S : x >= y

\* sub occurs in s at position i
MatchAt(s, i, sub) ==
    /\ i + Len(sub) - 1 <= Len(s)
    /\ \A k \in 1..Len(sub) : s[i + k - 1] = sub[k]

\* s.find(sub), 1-based; 0 when sub does not occur
Find(s, sub) ==
    LET hits == {i \in 1..(Len(s) + 1) : MatchAt(s, i, sub)}
    IN  IF hits = {} THEN 0 ELSE Min(hits)

\* sub in s
In(sub, s) == Find(s, sub) # 0

\* s.strip()
Strip(s) ==
    LET keep == {i \in 1..Len(s) : s[i] \notin Whitespace}
    IN  IF keep = {} THEN <<>> ELSE SubSeq(s, Min(keep), Max(keep))

\* s.split(sep), sep non-empty
RECURSIVE Split(_, _)
Split(s, sep) ==
    LET i == Find(s, sep)
    IN  IF i = 0 THEN <<s>>
        ELSE <<SubSeq(s, 1, i - 1)>> \o Split(SubSeq(s, i + Len(sep), Len(s)), sep)

\* s.split(sep, 1)
SplitOnce(s, sep) ==
    LET i == Find(s, sep)
    IN  IF i = 0 THEN <<s>>
        ELSE <<SubSeq(s, 1, i - 1), SubSeq(s, i + Len(sep), Len(s))>>

\* s.split(): the maximal runs of non-whitespace characters
RECURSIVE Words(_)
Words(s) ==
    LET keep == {i \in 1..Len(s) : s[i] \notin Whitespace}
    IN  IF keep = {} THEN <<>>
        ELSE LET b    == Min(keep)
                 ends == {i \in b..Len(s) : s[i] \in Whitespace}
                 e    == IF ends = {} THEN Len(s) + 1 ELSE Min(ends)
             IN  <<SubSeq(s, b, e - 1)>> \o Words(SubSeq(s, e, Len(s)))

\* sep.join(parts)
RECURSIVE Join(_, _)
Join(sep, parts) ==
    IF parts = <<>> THEN <<>>
    ELSE IF Len(parts) = 1 THEN parts[1]
    ELSE parts[1] \o sep \o Join(sep, Tail(parts))

\* s.replace(old, new, 1)
ReplaceFirst(s, old, new) ==
    LET i == Find(s, old)
    IN  IF i = 0 THEN s
        ELSE SubSeq(s, 1, i - 1) \o new \o SubSeq(s, i + Len(old), Len(s))

\* s.replace(old, new), old non-empty
RECURSIVE Replace(_, _, _)
Replace(s, old, new) ==
    LET i == Find(s, old)
    IN  IF i = 0 THEN s
        ELSE SubSeq(s, 1, i - 1) \o new
               \o Replace(SubSeq(s, i + Len(old), Len(s)), old, new)

\* str(n) for n >= 0
RECURSIVE Str(_)
Str(n) ==
    LET digit == <<"0", "1", "2", "3", "4", "5", "6", "7", "8", "9">>
    IN  IF n < 10 THEN <<digit[n + 1]>>
        ELSE Str(n \div 10) \o <<digit[(n % 10) + 1]>>

\* [f(x) for x in xs]
RECURSIVE Concat(_)
Concat(xss) == IF xss = <<>> THEN <<>> ELSE xss[1] \o Concat(Tail(xss))

\* hashlib.sha1(s.encode("utf-8")).hexdigest()[:n], symbolic
Sha1Hex(s, n) == <<"sha1", n, s>>

----------------------------------------------------------------------------
(* The engine. *)

\* Card(guid, type, question, answer, tags)
Card(g, t, q, a, tg) == [guid |-> g, type |-> t, question |-> q, answer |-> a, tags |-> tg]

\* a card's tags are the list process_text built, or whatever else was passed
TagList(l) == [kind |-> "list", value |-> l]
TagStr(s) == [kind |-> "str", value |-> s]

gen_id_from_text(name) == Sha1Hex(name, 16)

is_definition_line(line) ==
    Len(SelectSeq(Split(line, <<":">>), LAMBDA part : Len(Strip(part)) > 0)) > 1

is_direct_line(line) == In(<<"|", "|">>, line)

is_single_paragraph_fill(lines) ==
    IF Len(lines) < 2 THEN FALSE
    ELSE LET first_line == Strip(lines[1])
         IN  \A i \in 2..Len(lines) :
                 Strip(lines[i]) # <<>> => In(Strip(lines[i]), first_line)

\* create_direct_cards with the whole line as the answer, as create_def_cards has it
create_direct_cards_whole_line(lines, tgs) ==
    LET one(l) ==
            LET parts == [i \in DOMAIN SplitOnce(l, <<"|", "|">>) |->
                              Strip(SplitOnce(l, <<"|", "|">>)[i])]
            IN  IF Len(parts) < 2 THEN <<>>
                ELSE <<Card(<<>>, "DIRECT", parts[1], l, tgs)>>
    IN  Concat([i \in DOMAIN lines |-> one(lines[i])])

create_direct_cards(lines, tgs) ==
    LET one(l) ==
            LET parts == [i \in DOMAIN SplitOnce(l, <<"|", "|">>) |->
                              Strip(SplitOnce(l, <<"|", "|">>)[i])]
            IN  IF Len(parts) < 2 THEN <<>>
                ELSE <<Card(<<>>, "DIRECT", parts[1], parts[2], tgs)>>
    IN  Concat([i \in DOMAIN lines |-> one(lines[i])])

\* create_def_cards without the reciprocal card
create_def_cards_one_way(lines, tgs) ==
    LET one(line) ==
            LET parts == [i \in DOMAIN SplitOnce(line, <<":">>) |->
                              Strip(SplitOnce(line, <<":">>)[i])]
            IN  IF Len(parts) < 2 THEN <<>>
                ELSE <<Card(<<>>, "DEFINITION",
                            <<"D", "e", "f", "i", "n", "e", " ">> \o parts[1], line, tgs)>>
    IN  Concat([i \in DOMAIN lines |-> one(lines[i])])

create_def_cards(lines, tgs) ==
    LET one(line) ==
            LET parts == [i \in DOMAIN SplitOnce(line, <<":">>) |->
                              Strip(SplitOnce(line, <<":">>)[i])]
            IN  IF Len(parts) < 2 THEN <<>>
                ELSE <<Card(<<>>, "DEFINITION",
                            <<"D", "e", "f", "i", "n", "e", " ">> \o parts[1], line, tgs),
                       Card(<<>>, "DEFINITION", parts[2], parts[1], tgs)>>
    IN  Concat([i \in DOMAIN lines |-> one(lines[i])])

\* re.search(r"\[(.+?)\]", l): the leftmost "[" with a "]" at least two
\* characters later, up to the nearest such "]"
ReSearchLabel(l) ==
    LET closes(i) == {j \in (i + 2)..Len(l) : l[j] = "]"}
        opens == {i \in 1..Len(l) : l[i] = "[" /\ closes(i) # {}}
    IN  IF opens = {} THEN [found |-> FALSE, group |-> <<>>]
        ELSE [found |-> TRUE,
              group |-> SubSeq(l, Min(opens) + 1, Min(closes(Min(opens))) - 1)]

\* re.sub(r'[\[\]]', '', l)
ReSubBrackets(l) == SelectSeq(l, LAMBDA c : c \notin {"[", "]"})

\* a blocks[k] that adds the lines to those the label already has
DictSet_merging(d, k, v) ==
    IF \E i \in DOMAIN d : d[i].key = k
    THEN [i \in DOMAIN d |-> IF d[i].key = k THEN [key |-> k, val |-> d[i].val \o v] ELSE d[i]]
    ELSE Append(d, [key |-> k, val |-> v])

\* blocks[k] = v on a dict kept as a list of entries in insertion order
DictSet(d, k, v) ==
    IF \E i \in DOMAIN d : d[i].key = k
    THEN [i \in DOMAIN d |-> IF d[i].key = k THEN [key |-> k, val |-> v] ELSE d[i]]
    ELSE Append(d, [key |-> k, val |-> v])

\* `if cur_struct and cur_block: blocks[cur_struct] = cur_block`;
\* cur_struct is None (is_none) or a str
Commit(st) ==
    IF ~st.is_none /\ st.cur_struct # <<>> /\ st.cur_block # <<>>
    THEN DictSet(st.blocks, st.cur_struct, st.cur_block)
    ELSE st.blocks

\* an iteration that keeps blank lines and opens a block, under a
\* placeholder label, for the lines that come before any label
split_blocks_step_unlabelled(st, line) ==
    LET l == Strip(line)
        match == ReSearchLabel(l)
    IN  IF match.found
        THEN [blocks |-> Commit(st), is_none |-> FALSE,
              cur_struct |-> Strip(match.group),
              cur_block |-> <<ReSubBrackets(l)>>]
        ELSE [st EXCEPT !.cur_block = Append(@, l),
                        !.is_none = FALSE,
                        !.cur_struct = IF st.is_none THEN <<"?">> ELSE @]

\* one iteration of the loop of split_blocks
split_blocks_step(st, line) ==
    LET l == Strip(line)
        match == ReSearchLabel(l)
    IN  IF l = <<>> THEN st
        ELSE IF match.found
        THEN [blocks |-> Commit(st), is_none |-> FALSE,
              cur_struct |-> Strip(match.group),
              cur_block |-> <<ReSubBrackets(l)>>]
        ELSE [st EXCEPT !.cur_block = Append(@, l)]

RECURSIVE split_blocks_loop(_, _)
split_blocks_loop(st, lines) ==
    IF lines = <<>> THEN st
    ELSE split_blocks_loop(split_blocks_step(st, lines[1]), Tail(lines))

split_blocks(lines) ==
    Commit(split_blocks_loop(
        [blocks |-> <<>>, is_none |-> TRUE, cur_struct |-> <<>>, cur_block |-> <<>>],
        lines))

\* f"{{{{c{i}::{term_clean}}}}}"
ClozeMarker(i, term_clean) ==
    <<"{", "{", "c">> \o Str(i) \o <<":", ":">> \o term_clean \o <<"}", "}">>

RECURSIVE cloze_loop(_, _, _)
cloze_loop(cloze_text, terms, i) ==
    IF terms = <<>> THEN cloze_text
    ELSE LET term_clean == Join(<<" ">>, Words(terms[1]))
         IN  cloze_loop(ReplaceFirst(cloze_text, term_clean, ClozeMarker(i, term_clean)),
                        Tail(terms), i + 1)

\* `tags` is no parameter of create_fill_cards: it is the module global
create_fill_cards(lines_block) ==
    LET is_single_paragraph == is_single_paragraph_fill(lines_block)
        start == IF is_single_paragraph THEN lines_block[1]
                 ELSE Join(<<"\n">>, lines_block)
        cloze_text == cloze_loop(start, Tail(lines_block), 1)
    IN  <<Card(<<>>, "FILL", cloze_text, cloze_text, TagStr(tags))>>

create_class_cards(items, struct_name, tgs) ==
    [i \in DOMAIN items |-> Card(<<>>, "CLASSIFICATION", items[i], struct_name, tgs)]

create_fill_and_classification_cards(lines, tgs, generate_fill, generate_class) ==
    IF lines = <<>> \/ ~(generate_fill \/ generate_class) THEN <<>>
    ELSE LET blocks == split_blocks(lines)
             one(e) ==
                 IF e.val = <<>> THEN <<>>
                 ELSE (IF generate_fill THEN create_fill_cards(e.val) ELSE <<>>)
                      \o (IF generate_class
                          THEN create_class_cards(Tail(e.val), e.key, tgs)
                          ELSE <<>>)
         IN  Concat([i \in DOMAIN blocks |-> one(blocks[i])])

\* the three lists the loop of process_text sorts the lines into
direct_lines(lines) == SelectSeq(lines, is_direct_line)

def_lines(lines) ==
    SelectSeq(lines, LAMBDA l : ~is_direct_line(l) /\ is_definition_line(l))

other_lines(lines) ==
    SelectSeq(lines, LAMBDA l : ~is_direct_line(l) /\ ~is_definition_line(l))

process_text(txt, gen_definitions, gen_fill, gen_class, raw_tags) ==
    LET lines == Split(txt, <<"\n">>)
        tgs == TagList([i \in DOMAIN raw_tags |-> Replace(raw_tags[i], <<" ">>, <<"_">>)])
    IN  create_direct_cards(direct_lines(lines), tgs)
        \o (IF gen_definitions THEN create_def_cards(def_lines(lines), tgs) ELSE <<>>)
        \o create_fill_and_classification_cards(other_lines(lines), tgs,
                                                gen_fill, gen_class)

\* the call `blocks = split_blocks(lines)` process_text makes, if it makes it
split_blocks_call(txt, gen_fill, gen_class) ==
    LET lines == other_lines(Split(txt, <<"\n">>))
    IN  IF lines = <<>> \/ ~(gen_fill \/ gen_class)
        THEN [called |-> FALSE, lines |-> <<>>, result |-> <<>>]
        ELSE [called |-> TRUE, lines |-> lines, result |-> split_blocks(lines)]

\* the deck id and, per card, the note handed to my_deck.add_note
create_apkg(name, cs) ==
    [deck_id |-> Sha1Hex(name, 8),
     name    |-> name,
     notes   |-> [i \in DOMAIN cs |->
                    LET c == cs[i]
                        guid == gen_id_from_text(c.question \o <<"|", "|">> \o name)
                    IN  IF c.type = "FILL"
                        THEN [model |-> "cloze", fields |-> <<c.question>>,
                              tags |-> c.tags, guid |-> guid]
                        ELSE [model |-> "basic", fields |-> <<c.question, c.answer>>,
                              tags |-> c.tags, guid |-> guid]]]

----------------------------------------------------------------------------
(* The inputs: what the user can put in the form. *)

\* lines for direct and definition cards: "b || c", "|| b", "a: b", "a::",
\* ":a:b" and a line of one space
DirectDefLines ==
    { <<"b", " ", "|", "|", " ", "c">>,
      <<"|", "|", " ", "b">>,
      <<"a", ":", " ", "b">>,
      <<"a", ":", ":">>,
      <<":", "a", ":", "b">>,
      <<" ">> }

\* lines for fill and classification cards: "[G] a b", "[G] a  b", "[H] x",
\* "a", "b", "a  b", "[ ]" and the empty line
BlockLines ==
    { <<"[", "G", "]", " ", "a", " ", "b">>,
      <<"[", "G", "]", " ", "a", " ", " ", "b">>,
      <<"[", "H", "]", " ", "x">>,
      <<"a">>,
      <<"b">>,
      <<"a", " ", " ", "b">>,
      <<"[", " ", "]">>,
      <<>> }

\* the texts of 1..max lines, all of one of the two kinds
LineSeqs(L, max) == UNION {[1..n -> L] : n \in 1..max}

Texts(max) ==
    {Join(<<"\n">>, ls) : ls \in LineSeqs(DirectDefLines, max) \cup LineSeqs(BlockLines, max)}

\* the "Tags" field: "e, b" and the field left empty
TagInputs == { <<"e", ",", " ", "b">>, <<>> }

\* the "Deck name" field
DeckNames == { <<"D">> }

----------------------------------------------------------------------------
(* The state machine: process_text, then create_apkg, then the form again. *)

NoDeck == [deck_id |-> <<>>, name |-> <<>>, notes |-> <<>>]

NoPrev == [set |-> FALSE, deck_id |-> <<>>, guids |-> <<>>]

NoCall == [called |-> FALSE, lines |-> <<>>, result |-> <<>>]

Guids(d) == [i \in DOMAIN d.notes |-> d.notes[i].guid]

\* the form filled in with a text of at most max lines, nothing run yet
Form(max) ==
    /\ text \in Texts(max)
    /\ deck_name \in DeckNames
    /\ tags \in TagInputs
    /\ df \in BOOLEAN
    /\ fill \in BOOLEAN
    /\ rev \in BOOLEAN
    /\ pc = "form"
    /\ cards = <<>>
    /\ split_call = NoCall
    /\ deck = NoDeck
    /\ prev = NoPrev

Init == Form(MaxLines)

InitRerun == Form(MaxRerunLines)

\* a process_text whose list of cards outlives the call (a list shared by
\* the runs, such as a mutable default argument)
ProcessText_shared_list ==
    /\ pc = "form"
    /\ cards' = cards \o process_text(text, df, fill, rev, Split(tags, <<",">>))
    /\ split_call' = split_blocks_call(text, fill, rev)
    /\ pc' = "cards"
    /\ UNCHANGED <<text, deck_name, tags, df, fill, rev, deck, prev>>

\* cards = process_text(text, df, fill, rev, tags.split(","))
ProcessText ==
    /\ pc = "form"
    /\ cards' = process_text(text, df, fill, rev, Split(tags, <<",">>))
    /\ split_call' = split_blocks_call(text, fill, rev)
    /\ pc' = "cards"
    /\ UNCHANGED <<text, deck_name, tags, df, fill, rev, deck, prev>>

\* apkg_file = create_apkg(deck_name, cards)
CreateApkg ==
    /\ pc = "cards"
    /\ deck' = create_apkg(deck_name, cards)
    /\ pc' = "apkg"
    /\ UNCHANGED <<text, deck_name, tags, df, fill, rev, cards, split_call, prev>>

\* the form is submitted again with the same text, deck name and checkboxes
\* (the tags may have been edited); the package of this run stays with
\* whoever downloaded it
Resubmit ==
    /\ pc = "apkg"
    /\ \E t \in TagInputs : tags' = t
    /\ prev' = [set |-> TRUE, deck_id |-> deck.deck_id, guids |-> Guids(deck)]
    /\ pc' = "form"
    /\ UNCHANGED <<text, deck_name, df, fill, rev, cards, split_call, deck>>

Next == ProcessText \/ CreateApkg

Spec == Init /\ [][Next]_vars

NextRerun == ProcessText \/ CreateApkg \/ Resubmit

SpecRerun == InitRerun /\ [][NextRerun]_vars

----------------------------------------------------------------------------
(* What the claims speak about. *)

Bar == <<"|", "|">>

Colon == <<":">>

\* the lines of the text
Lines == Split(text, <<"\n">>)

\* question and answer of each card
QA(cs) == [i \in DOMAIN cs |-> <<cs[i].question, cs[i].answer>>]

CardsOfType(t) == SelectSeq(cards, LAMBDA c : c.type = t)

\* what stands before and after the first sep of l, trimmed
TermOf(l, sep) == Strip(SubSeq(l, 1, Find(l, sep) - 1))

RestOf(l, sep) == Strip(SubSeq(l, Find(l, sep) + Len(sep), Len(l)))

\* l is `term sep definition` with a term and a definition
WellFormed(l, sep) == In(sep, l) /\ TermOf(l, sep) # <<>> /\ RestOf(l, sep) # <<>>

\* a character that is neither whitespace nor a colon
IsText(c) == c \notin Whitespace \cup {":"}

\* l has text on both sides of some colon
TextAroundColon(l) ==
    \E p, c, q \in DOMAIN l :
        p < c /\ c < q /\ l[c] = ":" /\ IsText(l[p]) /\ IsText(l[q])

Define == <<"D", "e", "f", "i", "n", "e", " ">>

----------------------------------------------------------------------------
(* C1 *)

DirectLinesOfText == SelectSeq(Lines, LAMBDA l : In(Bar, l))

\* C1, as stated: every line `term || definition` with a non-empty trimmed
\* term and definition gives exactly one card, the k-th such line the k-th
\* Direct card, whose question is the trimmed term and whose answer is the
\* whole line.
C1_DirectAnswerIsWholeLine ==
    pc = "cards" =>
        LET dl == DirectLinesOfText
            dc == CardsOfType("DIRECT")
        IN  /\ Len(dc) = Len(dl)
            /\ \A k \in DOMAIN dl :
                   WellFormed(dl[k], Bar) =>
                       /\ dc[k].question = TermOf(dl[k], Bar)
                       /\ dc[k].answer = dl[k]

\* C1, amended: every line `term || definition` with a non-empty trimmed
\* term and definition gives exactly one card, the k-th such line the k-th
\* Direct card, whose question is the trimmed term and whose answer is the
\* trimmed definition (what follows the first `||`).
C1_DirectAnswerIsDefinition ==
    pc = "cards" =>
        LET dl == DirectLinesOfText
            dc == CardsOfType("DIRECT")
        IN  /\ Len(dc) = Len(dl)
            /\ \A k \in DOMAIN dl :
                   WellFormed(dl[k], Bar) =>
                       /\ dc[k].question = TermOf(dl[k], Bar)
                       /\ dc[k].answer = RestOf(dl[k], Bar)

\* process_text has run on a text with two `||` lines, one of them with a
\* term and a definition
C1_Witness ==
    /\ pc = "cards"
    /\ Len(DirectLinesOfText) >= 2
    /\ \E k \in DOMAIN DirectLinesOfText :
           /\ WellFormed(DirectLinesOfText[k], Bar)
           /\ RestOf(DirectLinesOfText[k], Bar) # DirectLinesOfText[k]

----------------------------------------------------------------------------
(* C2 *)

\* the two cards of the definition line l
DefPair(l) ==
    << <<Define \o TermOf(l, Colon), l>>, <<RestOf(l, Colon), TermOf(l, Colon)>> >>

\* C2, as stated: with definitions enabled, every line `term: definition`
\* without `||` and with a non-empty trimmed term and definition gives the
\* card ("Define " + term, line) followed by the card (definition, term).
C2_EveryColonLineGivesTwoCards ==
    (pc = "cards" /\ df) =>
        \A k \in DOMAIN Lines :
            (~In(Bar, Lines[k]) /\ WellFormed(Lines[k], Colon)) =>
                \E j \in 1..(Len(cards) - 1) :
                    <<QA(cards)[j], QA(cards)[j + 1]>> = DefPair(Lines[k])

\* the lines without `||` that have text on both sides of a colon
DefLinesOfText == SelectSeq(Lines, LAMBDA l : ~In(Bar, l) /\ TextAroundColon(l))

\* C2, amended: with definitions enabled, every line `term: definition`
\* without `||`, with a non-empty trimmed term and with a definition that
\* holds a character other than whitespace and `:`, gives exactly two cards,
\* the k-th such line the (2k-1)-th and 2k-th Definition cards: ("Define " +
\* term, line) and then (definition, term).
C2_TextAroundColonGivesTwoCards ==
    (pc = "cards" /\ df) =>
        LET dl == DefLinesOfText
            dc == QA(CardsOfType("DEFINITION"))
        IN  /\ Len(dc) = 2 * Len(dl)
            /\ \A k \in DOMAIN dl :
                   TermOf(dl[k], Colon) # <<>> =>
                       <<dc[2 * k - 1], dc[2 * k]>> = DefPair(dl[k])

\* process_text has run with definitions enabled on a text with two
\* definition lines, one of them with a term
C2_Witness ==
    /\ pc = "cards"
    /\ df
    /\ Len(DefLinesOfText) >= 2
    /\ \E k \in DOMAIN DefLinesOfText : TermOf(DefLinesOfText[k], Colon) # <<>>

----------------------------------------------------------------------------
(* C3 *)

\* the lines of the text, trimmed, without the blank ones
NonBlankLines == SelectSeq([i \in DOMAIN Lines |-> Strip(Lines[i])], LAMBDA l : l # <<>>)

HasBracket(l) == \E i \in DOMAIN l : l[i] \in {"[", "]"}

\* l is `[Label] text`: it opens with a bracketed, non-blank label and
\* holds no other bracket
IsHeader(l) ==
    /\ Len(l) >= 3
    /\ l[1] = "["
    /\ Find(l, <<"]">>) >= 3
    /\ Strip(SubSeq(l, 2, Find(l, <<"]">>) - 1)) # <<>>
    /\ ~HasBracket(SubSeq(l, 2, Find(l, <<"]">>) - 1))
    /\ ~HasBracket(SubSeq(l, Find(l, <<"]">>) + 1, Len(l)))

HeaderLabel(l) == Strip(SubSeq(l, 2, Find(l, <<"]">>) - 1))

\* the header without its two brackets
HeaderText(l) == SubSeq(l, 2, Find(l, <<"]">>) - 1) \o SubSeq(l, Find(l, <<"]">>) + 1, Len(l))

\* the characters of the cloze marker syntax
MarkerChars == {"{", "}", ":", "c", "0", "1", "2", "3", "4", "5", "6", "7", "8", "9"}

\* the places of header h the first occurrence of item covers
Covered(h, item) == Find(h, item)..(Find(h, item) + Len(item) - 1)

\* the text is one block as C3 describes it: a header, then items that each
\* occur in the header, that do not overlap there, that hold no character of
\* the marker syntax, no bracket, no `||` and no `:`
IsClaimBlock(nb) ==
    /\ Len(nb) >= 1
    /\ IsHeader(nb[1])
    /\ ~In(Bar, nb[1])
    /\ ~In(Colon, nb[1])
    /\ \A k \in 2..Len(nb) :
           /\ ~HasBracket(nb[k])
           /\ \A i \in DOMAIN nb[k] : nb[k][i] \notin MarkerChars
           /\ ~In(Bar, nb[k])
           /\ In(nb[k], HeaderText(nb[1]))
    /\ \A j, k \in 2..Len(nb) :
           j < k => Covered(HeaderText(nb[1]), nb[j])
                        \cap Covered(HeaderText(nb[1]), nb[k]) = {}

\* the first occurrence of each item wrapped in the marker of its index
RECURSIVE Wrapped(_, _, _)
Wrapped(h, items, k) ==
    IF items = <<>> THEN h
    ELSE Wrapped(ReplaceFirst(h, items[1],
                     <<"{", "{", "c">> \o Str(k) \o <<":", ":">> \o items[1] \o <<"}", "}">>),
                 Tail(items), k + 1)

\* C3, for a text that is one such block: with fill and classification
\* enabled the cards are one Fill card, whose question and answer are the
\* header text with the first occurrence of the k-th item wrapped in marker
\* k, followed by one Classification card (item, Label) per item, in order.
C3_BlockGivesFillThenClassCards ==
    (pc = "cards" /\ fill /\ rev /\ IsClaimBlock(NonBlankLines)) =>
        LET nb == NonBlankLines
            marked == Wrapped(HeaderText(nb[1]), Tail(nb), 1)
        IN  /\ Len(cards) = Len(nb)
            /\ cards[1].type = "FILL"
            /\ QA(cards)[1] = <<marked, marked>>
            /\ \A k \in 2..Len(nb) :
                   /\ cards[k].type = "CLASSIFICATION"
                   /\ QA(cards)[k] = <<nb[k], HeaderLabel(nb[1])>>

\* the same, for the blocks none of whose items holds two whitespace
\* characters in a row: this much the code does
C3_HoldsWithoutWhitespaceRuns ==
    (\A k \in DOMAIN NonBlankLines :
         k >= 2 => NonBlankLines[k] = Join(<<" ">>, Words(NonBlankLines[k])))
        => C3_BlockGivesFillThenClassCards

----------------------------------------------------------------------------
(* C4 *)

\* C4: no Direct or Definition card has an empty question or an empty answer.
C4_NoEmptySide ==
    pc = "cards" =>
        \A i \in DOMAIN cards :
            cards[i].type \in {"DIRECT", "DEFINITION"} =>
                cards[i].question # <<>> /\ cards[i].answer # <<>>

----------------------------------------------------------------------------
(* C5 *)

\* how often the opening of marker k, `{{ck::`, occurs in s
MarkerCount(s, k) ==
    Cardinality({i \in DOMAIN s : MatchAt(s, i, <<"{", "{", "c">> \o Str(k) \o <<":", ":">>)})

\* C5: every Fill card carries at least one cloze marker, and its marker
\* indices are 1..m for some m >= 1, each occurring once.
C5_FillCardHasMarkers ==
    pc = "cards" =>
        \A i \in DOMAIN cards :
            cards[i].type = "FILL" =>
                \E m \in 1..Len(cards[i].question) :
                    \A k \in 1..Len(cards[i].question) :
                        MarkerCount(cards[i].question, k) = (IF k <= m THEN 1 ELSE 0)

----------------------------------------------------------------------------
(* C6 *)

\* C6: two different cards of one export never get the same identifier.
C6_GuidsUnique ==
    pc = "apkg" =>
        \A i, j \in DOMAIN deck.notes :
            (i < j /\ cards[i] # cards[j]) => deck.notes[i].guid # deck.notes[j].guid

----------------------------------------------------------------------------
(* C7 *)

\* the raw tag list with the spaces of each tag replaced by underscores
NormalizedTags ==
    LET raw == Split(tags, <<",">>)
    IN  [i \in DOMAIN raw |->
            [j \in DOMAIN raw[i] |-> IF raw[i][j] = " " THEN "_" ELSE raw[i][j]]]

\* C7: every card process_text returns carries the normalized tag list.
C7_EveryCardCarriesTagList ==
    pc = "cards" =>
        \A i \in DOMAIN cards :
            cards[i].tags.kind = "list" /\ cards[i].tags.value = NormalizedTags

----------------------------------------------------------------------------
(* C8 *)

\* C8: a second run on the same text, checkboxes and deck name gives the
\* same identifiers, position by position, and the same deck identifier.
C8_RerunGivesSameIds ==
    (pc = "apkg" /\ prev.set) =>
        /\ Guids(deck) = prev.guids
        /\ deck.deck_id = prev.deck_id

\* a second run has exported at least two notes
C8_Witness ==
    /\ pc = "apkg"
    /\ prev.set
    /\ Len(deck.notes) >= 2
    /\ Len(prev.guids) >= 2

----------------------------------------------------------------------------
(* C9 *)

\* the text is empty or holds blank lines only
BlankText == \A i \in DOMAIN text : text[i] \in Whitespace \cup {"\n"}

\* C9: on an empty or blank text process_text returns no card, whatever
\* the checkboxes and the tags.
C9_BlankTextGivesNoCards ==
    (pc = "cards" /\ BlankText) => cards = <<>>

\* process_text has run on several blank lines with every checkbox set and
\* with tags given
C9_Witness ==
    /\ pc = "cards"
    /\ BlankText
    /\ Len(text) >= 2
    /\ df /\ fill /\ rev
    /\ tags # <<>>
    /\ split_call.called

----------------------------------------------------------------------------
(* C10 *)

\* the lines split_blocks was given, trimmed, without the blank ones
Scanned ==
    SelectSeq([i \in DOMAIN split_call.lines |-> Strip(split_call.lines[i])],
              LAMBDA l : l # <<>>)

\* the places of the label lines of sc, and of those with a non-empty label
LabelLines(sc) == {p \in DOMAIN sc : ReSearchLabel(sc[p]).found}

LabelAt(sc, p) == Strip(ReSearchLabel(sc[p]).group)

NamedLabelLines(sc) == {p \in LabelLines(sc) : LabelAt(sc, p) # <<>>}

\* the block the label line at p opens: that line without its brackets,
\* then the lines up to the next label line
BlockAt(sc, p) ==
    LET later == {q \in LabelLines(sc) : q > p}
        last == IF later = {} THEN Len(sc) ELSE Min(later) - 1
    IN  <<ReSubBrackets(sc[p])>> \o SubSeq(sc, p + 1, last)

FirstLineOf(sc, label) == Min({p \in NamedLabelLines(sc) : LabelAt(sc, p) = label})

LastLineOf(sc, label) == Max({p \in NamedLabelLines(sc) : LabelAt(sc, p) = label})

\* C10: the mapping split_blocks returns has one entry per distinct
\* non-empty label, in the order the labels were first seen, and the entry
\* of a label holds the block its last label line opened and nothing else.
C10_OneEntryPerLabelLastBlockWins ==
    (pc = "cards" /\ split_call.called) =>
        LET result == split_call.result
            sc == Scanned
        IN  /\ {result[i].key : i \in DOMAIN result}
                   = {LabelAt(sc, p) : p \in NamedLabelLines(sc)}
            /\ \A i, j \in DOMAIN result :
                   i < j => FirstLineOf(sc, result[i].key) < FirstLineOf(sc, result[j].key)
            /\ \A i, j \in DOMAIN result : i # j => result[i].key # result[j].key
            /\ \A i \in DOMAIN result :
                   result[i].val = BlockAt(sc, LastLineOf(sc, result[i].key))

\* split_blocks has scanned lines in which one label opens two different
\* blocks and another label opens a block too
C10_Witness ==
    /\ pc = "cards"
    /\ split_call.called
    /\ Len(split_call.result) >= 2
    /\ LET sc == Scanned
       IN  \E p, q \in NamedLabelLines(sc) :
               /\ p < q
               /\ LabelAt(sc, p) = LabelAt(sc, q)
               /\ BlockAt(sc, p) # BlockAt(sc, q)

====
